---- MODULE Spec2Model ----
(***************************************************************************)
(* The replication delete queue of src/replication/delete_queue.cc:        *)
(* add_key_to_delete_queue (Enqueue), dump_keys_from_delete_queue          *)
(* (RangeQuery) and initialize_empty_delete_queue, run by coroutines that  *)
(* serialise on the queue root block's reader/writer lock.                 *)
(***************************************************************************)
EXTENDS Integers, Sequences, FiniteSets, TLC

(* ------------------------------ bounds --------------------------------- *)
\* Number of add_key_to_delete_queue calls in a behaviour.
MaxEnq == 3
\* Enqueue timestamps are 1..MaxTs; query timestamps are 0..MaxTs+1.
MaxTs == 3
\* Longest key content (store_key_t.size), in bytes.
MaxKeyLen == 1

\* Content bytes of the keys.  They overlap the values of the length byte,
\* so that a walk starting off an entry boundary would decode a wrong key.
KeyBytes == {0, 1}

EnqTimestamps == 1..MaxTs
QueryTimestamps == 0..(MaxTs + 1)

RECURSIVE KeysOfLen(_)
KeysOfLen(n) ==
    IF n = 0 THEN {<<>>}
    ELSE {<<b>> \o k : b \in KeyBytes, k \in KeysOfLen(n - 1)}

Keys == UNION {KeysOfLen(n) : n \in 0..MaxKeyLen}

\* The coroutines: two that enqueue, one that queries.
Writers == {"w1", "w2"}
Readers == {"r1"}
Procs == Writers \cup Readers

(* ------------------------- program constants --------------------------- *)
\* sizeof(delete_queue::t_and_o): packed 4-byte timestamp + 8-byte offset.
TAO_SIZE == 12
\* delete_queue_block_t::expected_magic, { 'D', 'e', 'l', 'Q' }.
expected_magic == <<"D", "e", "l", "Q">>
\* A byte of a large buf that allocate()/append() made and nothing filled.
Uninit == -1

VARIABLES
    root,       \* the queue root block: magic, primal_offset and the two refs
    t_o_buf,    \* content of the timestamps-and-offsets large buf (t_and_o's)
    keys_buf,   \* content of the keys large buf (bytes)
    writer,     \* holder of the root block's lock in rwi_write mode, or "none"
    readers,    \* holders of the root block's lock in rwi_read mode
    pc,         \* where each coroutine is in its function
    loc,        \* each coroutine's arguments and locals
    ndebug,     \* TRUE: release build, rassert compiles to nothing
    aborted,    \* a failed rassert of a debug build has ended the process
    hist        \* history: the <<timestamp, key>> of each Enqueue, in lock order

vars == <<root, t_o_buf, keys_buf, writer, readers, pc, loc, ndebug, aborted, hist>>

(* ----------------------------- large bufs ------------------------------ *)
\* large_buf_ref after initialize_large_buf_ref: unallocated.
initialize_large_buf_ref == [offset |-> 0, size |-> 0]

\* large_buf_t::allocate(n): a fresh buffer of n unfilled bytes.
LbAllocate(n) == [i \in 1..n |-> Uninit]
\* large_buf_t::append(n): n unfilled bytes more at the tail.
LbAppend(buf, n) == buf \o [i \in 1..n |-> Uninit]
\* large_buf_t::fill_at(pos, data, Len(data)).
LbFillAt(buf, pos, data) ==
    [i \in 1..Len(buf) |->
        IF pos < i /\ i <= pos + Len(data) THEN data[i - pos] ELSE buf[i]]
\* large_buf_t::read_at(pos, out, n).
LbReadAt(buf, pos, n) == SubSeq(buf, pos + 1, pos + n)

\* The same four on the timestamps-and-offsets buf, which holds whole
\* t_and_o records: byte position pos is record pos / TAO_SIZE.
TaoAllocate(n) == [i \in 1..(n \div TAO_SIZE) |-> Uninit]
TaoAppend(buf, n) == buf \o [i \in 1..(n \div TAO_SIZE) |-> Uninit]
TaoFillAt(buf, pos, tao) ==
    [i \in 1..Len(buf) |-> IF i = (pos \div TAO_SIZE) + 1 THEN tao ELSE buf[i]]
TaoReadAt(buf, pos) == buf[(pos \div TAO_SIZE) + 1]

\* A store_key_t as fill_at copies it: the size byte, then the contents.
KeyBytesOf(key) == <<Len(key)>> \o key


(* ------------------------------- state --------------------------------- *)
\* A coroutine's arguments and locals, before a call and after its return.
NoLocals ==
    [timestamp |-> 0, key |-> <<>>, primal_offset |-> 0, warned |-> FALSE,
     begin_timestamp |-> 0, end_timestamp |-> 0,
     begin_found |-> FALSE, end_found |-> FALSE,
     begin_offset |-> 0, end_offset |-> 0,
     walked |-> <<>>,       \* position in the slice of each key the walk decoded
     out |-> <<>>,          \* the calls made on the recipient, in order
     seen |-> 0,            \* Enqueues that had returned when the lock was taken
     failed |-> "none"]     \* the rassert of this call that did not hold

\* initialize_empty_delete_queue on a fresh block; no coroutine has started.
Init ==
    /\ root = [magic |-> expected_magic,
               primal_offset |-> 0,
               t_o_ref |-> initialize_large_buf_ref,
               keys_ref |-> initialize_large_buf_ref]
    /\ t_o_buf = <<>>
    /\ keys_buf = <<>>
    /\ writer = "none"
    /\ readers = {}
    /\ pc = [p \in Procs |-> "idle"]
    /\ loc = [p \in Procs |-> NoLocals]
    /\ ndebug \in BOOLEAN
    /\ aborted = FALSE
    /\ hist = <<>>

\* Enqueue calls that have returned.
Completed == Len(hist) - Cardinality({w \in Writers : pc[w] # "idle"})

\* A failed rassert: a debug build aborts the process there, a release build
\* (NDEBUG) does not evaluate it and goes on.
Aborts(holds) == ~holds /\ ~ndebug

(* ----------------------- add_key_to_delete_queue ----------------------- *)
\* add_timestamp_and_offset without the clamp of an earlier timestamp.
add_timestamp_and_offset_unclamped(size, buf, keys_size, primal_offset, timestamp) ==
    LET tao == [timestamp |-> timestamp, offset |-> primal_offset + keys_size]
    IN  IF size = 0
        THEN [size |-> TAO_SIZE,
              buf |-> TaoFillAt(TaoAllocate(TAO_SIZE), 0, tao),
              timestamp |-> timestamp,
              warned |-> FALSE]
        ELSE IF TaoReadAt(buf, size - TAO_SIZE).timestamp # timestamp
             THEN [size |-> size + TAO_SIZE,
                   buf |-> TaoFillAt(TaoAppend(buf, TAO_SIZE), size, tao),
                   timestamp |-> timestamp,
                   warned |-> TaoReadAt(buf, size - TAO_SIZE).timestamp > timestamp]
             ELSE [size |-> size, buf |-> buf, timestamp |-> timestamp, warned |-> FALSE]

\* add_timestamp_and_offset that appends an entry on every call.
add_timestamp_and_offset_every_call(size, buf, keys_size, primal_offset, timestamp) ==
    IF size = 0
    THEN LET tao == [timestamp |-> timestamp, offset |-> primal_offset + keys_size]
         IN  [size |-> TAO_SIZE,
              buf |-> TaoFillAt(TaoAllocate(TAO_SIZE), 0, tao),
              timestamp |-> timestamp,
              warned |-> FALSE]
    ELSE LET last_tao == TaoReadAt(buf, size - TAO_SIZE)
             warn == last_tao.timestamp > timestamp
             ts == IF warn THEN last_tao.timestamp ELSE timestamp
             tao == [timestamp |-> ts, offset |-> primal_offset + keys_size]
         IN  [size |-> size + TAO_SIZE,
              buf |-> TaoFillAt(TaoAppend(buf, TAO_SIZE), size, tao),
              timestamp |-> ts,
              warned |-> warn]

\* add_timestamp_and_offset that compares with the last timestamp before it
\* clamps, so that an earlier timestamp gets an entry of its own.
add_timestamp_and_offset_compare_first(size, buf, keys_size, primal_offset, timestamp) ==
    IF size = 0
    THEN LET tao == [timestamp |-> timestamp, offset |-> primal_offset + keys_size]
         IN  [size |-> TAO_SIZE,
              buf |-> TaoFillAt(TaoAllocate(TAO_SIZE), 0, tao),
              timestamp |-> timestamp,
              warned |-> FALSE]
    ELSE LET last_tao == TaoReadAt(buf, size - TAO_SIZE)
             warn == last_tao.timestamp > timestamp
             ts == IF warn THEN last_tao.timestamp ELSE timestamp
             tao == [timestamp |-> ts, offset |-> primal_offset + keys_size]
         IN  IF last_tao.timestamp # timestamp
             THEN [size |-> size + TAO_SIZE,
                   buf |-> TaoFillAt(TaoAppend(buf, TAO_SIZE), size, tao),
                   timestamp |-> ts,
                   warned |-> warn]
             ELSE [size |-> size, buf |-> buf, timestamp |-> ts, warned |-> warn]

\* add_timestamp_and_offset whose offset is that of the key's contents, one
\* past the byte of its size.
add_timestamp_and_offset_past_size_byte(size, buf, keys_size, primal_offset, timestamp) ==
    IF size = 0
    THEN LET tao == [timestamp |-> timestamp, offset |-> primal_offset + keys_size + 1]
         IN  [size |-> TAO_SIZE,
              buf |-> TaoFillAt(TaoAllocate(TAO_SIZE), 0, tao),
              timestamp |-> timestamp,
              warned |-> FALSE]
    ELSE LET last_tao == TaoReadAt(buf, size - TAO_SIZE)
             warn == last_tao.timestamp > timestamp
             ts == IF warn THEN last_tao.timestamp ELSE timestamp
             tao == [timestamp |-> ts, offset |-> primal_offset + keys_size + 1]
         IN  IF last_tao.timestamp # ts
             THEN [size |-> size + TAO_SIZE,
                   buf |-> TaoFillAt(TaoAppend(buf, TAO_SIZE), size + TAO_SIZE - TAO_SIZE, tao),
                   timestamp |-> ts,
                   warned |-> warn]
             ELSE [size |-> size, buf |-> buf, timestamp |-> ts, warned |-> warn]

\* add_timestamp_and_offset whose offset is taken from t_o_ref->size.
add_timestamp_and_offset_of_t_o_size(size, buf, keys_size, primal_offset, timestamp) ==
    IF size = 0
    THEN LET tao == [timestamp |-> timestamp, offset |-> primal_offset + size]
         IN  [size |-> TAO_SIZE,
              buf |-> TaoFillAt(TaoAllocate(TAO_SIZE), 0, tao),
              timestamp |-> timestamp,
              warned |-> FALSE]
    ELSE LET last_tao == TaoReadAt(buf, size - TAO_SIZE)
             warn == last_tao.timestamp > timestamp
             ts == IF warn THEN last_tao.timestamp ELSE timestamp
             tao == [timestamp |-> ts, offset |-> primal_offset + size]
         IN  IF last_tao.timestamp # ts
             THEN [size |-> size + TAO_SIZE,
                   buf |-> TaoFillAt(TaoAppend(buf, TAO_SIZE), size + TAO_SIZE - TAO_SIZE, tao),
                   timestamp |-> ts,
                   warned |-> warn]
             ELSE [size |-> size, buf |-> buf, timestamp |-> ts, warned |-> warn]

\* add_timestamp_and_offset that reads the first entry of the buf as last_tao.
add_timestamp_and_offset_reads_first(size, buf, keys_size, primal_offset, timestamp) ==
    IF size = 0
    THEN LET tao == [timestamp |-> timestamp, offset |-> primal_offset + keys_size]
         IN  [size |-> TAO_SIZE,
              buf |-> TaoFillAt(TaoAllocate(TAO_SIZE), 0, tao),
              timestamp |-> timestamp,
              warned |-> FALSE]
    ELSE LET last_tao == TaoReadAt(buf, 0)
             warn == last_tao.timestamp > timestamp
             ts == IF warn THEN last_tao.timestamp ELSE timestamp
             tao == [timestamp |-> ts, offset |-> primal_offset + keys_size]
         IN  IF last_tao.timestamp # ts
             THEN [size |-> size + TAO_SIZE,
                   buf |-> TaoFillAt(TaoAppend(buf, TAO_SIZE), size + TAO_SIZE - TAO_SIZE, tao),
                   timestamp |-> ts,
                   warned |-> warn]
             ELSE [size |-> size, buf |-> buf, timestamp |-> ts, warned |-> warn]

\* add_timestamp_and_offset whose append grows the buf by sizeof(tao.offset).
add_timestamp_and_offset_grows_by_offset(size, buf, keys_size, primal_offset, timestamp) ==
    IF size = 0
    THEN LET tao == [timestamp |-> timestamp, offset |-> primal_offset + keys_size]
         IN  [size |-> TAO_SIZE,
              buf |-> TaoFillAt(TaoAllocate(TAO_SIZE), 0, tao),
              timestamp |-> timestamp,
              warned |-> FALSE]
    ELSE LET last_tao == TaoReadAt(buf, size - TAO_SIZE)
             warn == last_tao.timestamp > timestamp
             ts == IF warn THEN last_tao.timestamp ELSE timestamp
             tao == [timestamp |-> ts, offset |-> primal_offset + keys_size]
         IN  IF last_tao.timestamp # ts
             THEN [size |-> size + 8,
                   buf |-> TaoFillAt(TaoAppend(buf, 8), size + 8 - TAO_SIZE, tao),
                   timestamp |-> ts,
                   warned |-> warn]
             ELSE [size |-> size, buf |-> buf, timestamp |-> ts, warned |-> warn]

\* Step 1 of add_key_to_delete_queue, on the timestamps-and-offsets buf:
\* the new t_o_ref->size and content, and the (possibly clamped) timestamp.
add_timestamp_and_offset(size, buf, keys_size, primal_offset, timestamp) ==
    IF size = 0
    THEN LET tao == [timestamp |-> timestamp, offset |-> primal_offset + keys_size]
         IN  [size |-> TAO_SIZE,
              buf |-> TaoFillAt(TaoAllocate(TAO_SIZE), 0, tao),
              timestamp |-> timestamp,
              warned |-> FALSE]
    ELSE LET last_tao == TaoReadAt(buf, size - TAO_SIZE)
             warn == last_tao.timestamp > timestamp
             ts == IF warn THEN last_tao.timestamp ELSE timestamp
             tao == [timestamp |-> ts, offset |-> primal_offset + keys_size]
         IN  IF last_tao.timestamp # ts
             THEN [size |-> size + TAO_SIZE,
                   buf |-> TaoFillAt(TaoAppend(buf, TAO_SIZE), size + TAO_SIZE - TAO_SIZE, tao),
                   timestamp |-> ts,
                   warned |-> warn]
             ELSE [size |-> size, buf |-> buf, timestamp |-> ts, warned |-> warn]

\* add_key_bytes whose append grows the buf by key->size, without the byte
\* of the size.
add_key_bytes_short_append(size, buf, key) ==
    IF size = 0
    THEN [size |-> 1 + Len(key),
          buf |-> LbFillAt(LbAllocate(1 + Len(key)), 0, KeyBytesOf(key))]
    ELSE [size |-> size + Len(key),
          buf |-> LbFillAt(LbAppend(buf, Len(key)),
                           (size + Len(key)) - (1 + Len(key)),
                           KeyBytesOf(key))]

\* add_key_bytes whose first allocation has room for the key only, without
\* its length byte.
add_key_bytes_short_allocate(size, buf, key) ==
    IF size = 0
    THEN [size |-> Len(key),
          buf |-> LbFillAt(LbAllocate(Len(key)), 0, key)]
    ELSE [size |-> size + (1 + Len(key)),
          buf |-> LbFillAt(LbAppend(buf, 1 + Len(key)), size, KeyBytesOf(key))]

\* add_key_bytes that leaves out a key equal to the last one of the buf.
add_key_bytes_skip_duplicate(size, buf, key) ==
    IF size = 0
    THEN [size |-> 1 + Len(key),
          buf |-> LbFillAt(LbAllocate(1 + Len(key)), 0, KeyBytesOf(key))]
    ELSE IF size >= 1 + Len(key)
            /\ LbReadAt(buf, size - (1 + Len(key)), 1 + Len(key)) = KeyBytesOf(key)
         THEN [size |-> size, buf |-> buf]
         ELSE [size |-> size + (1 + Len(key)),
               buf |-> LbFillAt(LbAppend(buf, 1 + Len(key)), size, KeyBytesOf(key))]

\* Step 2 of add_key_to_delete_queue, on the keys buf: the new keys_ref->size
\* and content.
add_key_bytes(size, buf, key) ==
    IF size = 0
    THEN [size |-> 1 + Len(key),
          buf |-> LbFillAt(LbAllocate(1 + Len(key)), 0, KeyBytesOf(key))]
    ELSE [size |-> size + (1 + Len(key)),
          buf |-> LbFillAt(LbAppend(buf, 1 + Len(key)),
                           (size + (1 + Len(key))) - (1 + Len(key)),
                           KeyBytesOf(key))]

\* buf_lock_t in mode rwi_write waits for every holder of the block's lock,
\* in mode rwi_read for its writer.
CanLock(mode) ==
    IF mode = "rwi_write" THEN writer = "none" /\ readers = {}
    ELSE writer = "none"
\* The holders once p has the lock in the mode.
Locked(p, mode) ==
    IF mode = "rwi_write" THEN <<p, readers>> ELSE <<writer, readers \cup {p}>>
\* The holders once p's buf_lock_t is destroyed.
Unlocked(p) == <<IF writer = p THEN "none" ELSE writer, readers \ {p}>>

\* add_key_to_delete_queue taking the root block with rwi_read.
EnqueueAccessShared == "rwi_read"

\* buf_lock_t queue_root(saver, *txor, queue_root_id, rwi_write).
EnqueueAccess == "rwi_write"
\* buf_lock_t queue_root(saver, *txor, queue_root_id, rwi_read).
DumpAccess == "rwi_read"

\* The call, the write lock on the root block, and the rassert on the size.
EnqueueAcquire(w, timestamp, key) ==
    /\ ~aborted
    /\ pc[w] = "idle"
    /\ Len(hist) < MaxEnq
    /\ CanLock(EnqueueAccess)
    /\ writer' = Locked(w, EnqueueAccess)[1]
    /\ readers' = Locked(w, EnqueueAccess)[2]
    /\ hist' = Append(hist, <<timestamp, key>>)
    /\ LET ok == root.t_o_ref.size % TAO_SIZE = 0
       IN  /\ aborted' = Aborts(ok)
           /\ pc' = [pc EXCEPT ![w] = "e_index"]
           /\ loc' = [loc EXCEPT ![w] =
                        [NoLocals EXCEPT !.timestamp = timestamp,
                                         !.key = key,
                                         !.primal_offset = root.primal_offset,
                                         !.seen = Completed,
                                         !.failed = IF ok THEN "none" ELSE "t_o_size"]]
    /\ UNCHANGED <<root, t_o_buf, keys_buf, ndebug>>

\* 1. Possibly update the (timestamp, offset) queue.
EnqueueIndex(w) ==
    /\ ~aborted
    /\ pc[w] = "e_index"
    /\ LET r == add_timestamp_and_offset(root.t_o_ref.size, t_o_buf, root.keys_ref.size,
                                         loc[w].primal_offset, loc[w].timestamp)
       IN  /\ root' = [root EXCEPT !.t_o_ref.size = r.size]
           /\ t_o_buf' = r.buf
           /\ loc' = [loc EXCEPT ![w].timestamp = r.timestamp, ![w].warned = r.warned]
    /\ pc' = [pc EXCEPT ![w] = "e_keys"]
    /\ UNCHANGED <<keys_buf, writer, readers, ndebug, aborted, hist>>

\* 2. Update the keys list.
EnqueueKeys(w) ==
    /\ ~aborted
    /\ pc[w] = "e_keys"
    /\ LET r == add_key_bytes(root.keys_ref.size, keys_buf, loc[w].key)
       IN  /\ root' = [root EXCEPT !.keys_ref.size = r.size]
           /\ keys_buf' = r.buf
    /\ pc' = [pc EXCEPT ![w] = "e_ret"]
    /\ UNCHANGED <<t_o_buf, writer, readers, loc, ndebug, aborted, hist>>

\* The return: queue_root's destructor releases the lock.
EnqueueRelease(w) ==
    /\ ~aborted
    /\ pc[w] = "e_ret"
    /\ writer' = Unlocked(w)[1]
    /\ readers' = Unlocked(w)[2]
    /\ pc' = [pc EXCEPT ![w] = "idle"]
    /\ loc' = [loc EXCEPT ![w] = NoLocals]
    /\ UNCHANGED <<root, t_o_buf, keys_buf, ndebug, aborted, hist>>

(* --------------------- dump_keys_from_delete_queue --------------------- *)
\* ScanIndex with the begin test written begin_timestamp < tao.timestamp.
RECURSIVE ScanIndexStrictBegin(_, _, _, _, _, _, _)
ScanIndexStrictBegin(buf, ie, primal_offset, begin_timestamp, end_timestamp, i, st) ==
    IF ~(i < ie)
    THEN st
    ELSE LET tao == TaoReadAt(buf, i)
             st1 == IF ~st.begin_found /\ begin_timestamp < tao.timestamp
                    THEN [st EXCEPT !.begin_offset = tao.offset - primal_offset,
                                    !.begin_found = TRUE]
                    ELSE st
         IN  IF end_timestamp <= tao.timestamp
             THEN [st1 EXCEPT !.begin_asserted = st1.begin_found,
                              !.end_offset = tao.offset - primal_offset,
                              !.end_found = TRUE]
             ELSE ScanIndexStrictBegin(buf, ie, primal_offset, begin_timestamp,
                                       end_timestamp, i + TAO_SIZE, st1)

\* ScanIndex whose end entry is the first with a timestamp above
\* end_timestamp.
RECURSIVE ScanIndexStrictEnd(_, _, _, _, _, _, _)
ScanIndexStrictEnd(buf, ie, primal_offset, begin_timestamp, end_timestamp, i, st) ==
    IF ~(i < ie)
    THEN st
    ELSE LET tao == TaoReadAt(buf, i)
             st1 == IF ~st.begin_found /\ begin_timestamp <= tao.timestamp
                    THEN [st EXCEPT !.begin_offset = tao.offset - primal_offset,
                                    !.begin_found = TRUE]
                    ELSE st
         IN  IF end_timestamp < tao.timestamp
             THEN [st1 EXCEPT !.begin_asserted = st1.begin_found,
                              !.end_offset = tao.offset - primal_offset,
                              !.end_found = TRUE]
             ELSE ScanIndexStrictEnd(buf, ie, primal_offset, begin_timestamp,
                                     end_timestamp, i + TAO_SIZE, st1)

\* The while loop over the timestamps-and-offsets buf, from byte position i
\* with the loop's variables in st.  begin_asserted is rassert(begin_found)
\* as evaluated where the end entry is found.
RECURSIVE ScanIndex(_, _, _, _, _, _, _)
ScanIndex(buf, ie, primal_offset, begin_timestamp, end_timestamp, i, st) ==
    IF ~(i < ie)
    THEN st
    ELSE LET tao == TaoReadAt(buf, i)
             st1 == IF ~st.begin_found /\ begin_timestamp <= tao.timestamp
                    THEN [st EXCEPT !.begin_offset = tao.offset - primal_offset,
                                    !.begin_found = TRUE]
                    ELSE st
         IN  IF end_timestamp <= tao.timestamp
             THEN [st1 EXCEPT !.begin_asserted = st1.begin_found,
                              !.end_offset = tao.offset - primal_offset,
                              !.end_found = TRUE]
             ELSE ScanIndex(buf, ie, primal_offset, begin_timestamp, end_timestamp,
                            i + TAO_SIZE, st1)

\* The loop's variables as declared: begin_offset = 0, end_offset = 0,
\* begin_found = false, end_found = false.
ScanStart ==
    [begin_offset |-> 0, end_offset |-> 0,
     begin_found |-> FALSE, end_found |-> FALSE, begin_asserted |-> TRUE]

\* The walk over the n bytes read into buf, from position p: the keys handed
\* to the recipient and where each began.  fits is rassert(k->size + 1 <= e - p);
\* where it fails a release build reads past the end of buf, and pad stands
\* for the bytes it finds there.
RECURSIVE WalkKeys(_, _, _, _)
WalkKeys(buf, n, p, pad) ==
    IF ~(p < n)
    THEN [keys |-> <<>>, at |-> <<>>, fits |-> TRUE]
    ELSE LET size == buf[p + 1]
         IN  IF size + 1 <= n - p
             THEN LET rest == WalkKeys(buf, n, p + size + 1, pad)
                  IN  [keys |-> <<SubSeq(buf, p + 2, p + 1 + size)>> \o rest.keys,
                       at |-> <<p>> \o rest.at,
                       fits |-> rest.fits]
             ELSE [keys |-> <<SubSeq(buf, p + 2, n)
                              \o [j \in 1..(size + 1 - (n - p)) |-> pad]>>,
                   at |-> <<p>>,
                   fits |-> FALSE]

\* recipient->deletion_key(k) for each key of ks, in order.
Deliver(out, ks) == out \o [j \in 1..Len(ks) |-> <<"deletion_key", ks[j]>>]
\* recipient->done_deletion_keys().
Complete(out) == Append(out, <<"done_deletion_keys">>)

\* The call and the read lock on the root block.
DumpAcquire(r, begin_timestamp, end_timestamp) ==
    /\ ~aborted
    /\ pc[r] = "idle"
    /\ CanLock(DumpAccess)
    /\ writer' = Locked(r, DumpAccess)[1]
    /\ readers' = Locked(r, DumpAccess)[2]
    /\ pc' = [pc EXCEPT ![r] = "d_sizes"]
    /\ loc' = [loc EXCEPT ![r] =
                 [NoLocals EXCEPT !.begin_timestamp = begin_timestamp,
                                  !.end_timestamp = end_timestamp,
                                  !.primal_offset = root.primal_offset,
                                  !.seen = Completed]]
    /\ UNCHANGED <<root, t_o_buf, keys_buf, ndebug, aborted, hist>>

\* DumpSizes that returns from the function where a buf is unallocated,
\* instead of falling through to done.
DumpSizesEarlyReturn(r) ==
    /\ ~aborted
    /\ pc[r] = "d_sizes"
    /\ pc' = [pc EXCEPT ![r] = IF root.t_o_ref.size # 0 /\ root.keys_ref.size # 0
                               THEN "d_scan" ELSE "d_ret"]
    /\ UNCHANGED <<root, t_o_buf, keys_buf, writer, readers, loc, ndebug, aborted, hist>>

\* if (t_o_ref->size != 0 && keys_ref->size != 0), and the rassert on the size.
DumpSizes(r) ==
    /\ ~aborted
    /\ pc[r] = "d_sizes"
    /\ IF root.t_o_ref.size # 0 /\ root.keys_ref.size # 0
       THEN LET ok == root.t_o_ref.size % TAO_SIZE = 0
            IN  /\ aborted' = Aborts(ok)
                /\ pc' = [pc EXCEPT ![r] = "d_scan"]
                /\ loc' = [loc EXCEPT ![r].failed = IF ok THEN "none" ELSE "t_o_size"]
       ELSE /\ pc' = [pc EXCEPT ![r] = "d_done"]
            /\ UNCHANGED <<loc, aborted>>
    /\ UNCHANGED <<root, t_o_buf, keys_buf, writer, readers, ndebug, hist>>

\* The scan of the timestamps-and-offsets buf, then if (!begin_found) goto done.
DumpScan(r) ==
    /\ ~aborted
    /\ pc[r] = "d_scan"
    /\ LET st == ScanIndex(t_o_buf, root.t_o_ref.size, loc[r].primal_offset,
                           loc[r].begin_timestamp, loc[r].end_timestamp, 0, ScanStart)
       IN  IF Aborts(st.begin_asserted)
           THEN /\ aborted' = TRUE
                /\ loc' = [loc EXCEPT ![r].failed = "begin_found"]
                /\ UNCHANGED pc
           ELSE /\ aborted' = FALSE
                /\ loc' = [loc EXCEPT ![r].begin_found = st.begin_found,
                                      ![r].end_found = st.end_found,
                                      ![r].begin_offset = st.begin_offset,
                                      ![r].end_offset = st.end_offset,
                                      ![r].failed = IF st.begin_asserted THEN "none"
                                                    ELSE "begin_found"]
                /\ pc' = [pc EXCEPT ![r] = IF st.begin_found THEN "d_end" ELSE "d_done"]
    /\ UNCHANGED <<root, t_o_buf, keys_buf, writer, readers, ndebug, hist>>

\* EndOffset without the case of no end entry.
EndOffsetAsScanned(end_found, end_offset, keys_size) == end_offset

\* if (!end_found) { end_offset = keys_ref->size; }
EndOffset(end_found, end_offset, keys_size) ==
    IF ~end_found THEN keys_size ELSE end_offset

\* The end offset, rassert(begin_offset <= end_offset), and
\* if (begin_offset < end_offset).
DumpEndOffset(r) ==
    /\ ~aborted
    /\ pc[r] = "d_end"
    /\ LET end_offset == EndOffset(loc[r].end_found, loc[r].end_offset,
                                   root.keys_ref.size)
           ok == loc[r].begin_offset <= end_offset
       IN  /\ aborted' = Aborts(ok)
           /\ loc' = [loc EXCEPT ![r].end_offset = end_offset,
                                 ![r].failed = IF ok THEN @ ELSE "offsets"]
           /\ pc' = [pc EXCEPT ![r] =
                       IF Aborts(ok) THEN @
                       ELSE IF loc[r].begin_offset < end_offset THEN "d_read"
                       ELSE "d_done"]
    /\ UNCHANGED <<root, t_o_buf, keys_buf, writer, readers, ndebug, hist>>

\* read_at(begin_offset, buf, n) and the walk that hands each key over.
DumpReadKeys(r) ==
    /\ ~aborted
    /\ pc[r] = "d_read"
    /\ \E pad \in KeyBytes :
         LET n == loc[r].end_offset - loc[r].begin_offset
             buf == LbReadAt(keys_buf, loc[r].begin_offset, n)
             walk == WalkKeys(buf, n, 0, pad)
             sent == IF Aborts(walk.fits)
                     THEN SubSeq(walk.keys, 1, Len(walk.keys) - 1)
                     ELSE walk.keys
         IN  /\ aborted' = Aborts(walk.fits)
             /\ loc' = [loc EXCEPT ![r].out = Deliver(@, sent),
                                   ![r].walked = walk.at,
                                   ![r].failed = IF walk.fits THEN @ ELSE "key_size"]
             /\ pc' = [pc EXCEPT ![r] = IF Aborts(walk.fits) THEN @ ELSE "d_done"]
    /\ UNCHANGED <<root, t_o_buf, keys_buf, writer, readers, ndebug, hist>>

\* The keys that the body of dump_keys_from_delete_queue, from the test of
\* the sizes to the end of the walk, hands to the recipient on the present
\* queue, where every rassert of the body holds.
dump_keys_from_delete_queue(begin_timestamp, end_timestamp) ==
    IF root.t_o_ref.size # 0 /\ root.keys_ref.size # 0
    THEN LET st == ScanIndex(t_o_buf, root.t_o_ref.size, root.primal_offset,
                             begin_timestamp, end_timestamp, 0, ScanStart)
             end_offset == EndOffset(st.end_found, st.end_offset, root.keys_ref.size)
             n == end_offset - st.begin_offset
         IN  IF st.begin_found /\ st.begin_offset < end_offset
             THEN WalkKeys(LbReadAt(keys_buf, st.begin_offset, n), n, 0, 0).keys
             ELSE <<>>
    ELSE <<>>

\* DumpDone that also drops from the queue what the query has read, moving
\* primal_offset up to the end offset.
DumpDoneTrimming(r) ==
    /\ ~aborted
    /\ pc[r] = "d_done"
    /\ loc' = [loc EXCEPT ![r].out = Complete(@)]
    /\ pc' = [pc EXCEPT ![r] = "d_ret"]
    /\ root' = [root EXCEPT !.primal_offset = @ + loc[r].end_offset]
    /\ UNCHANGED <<t_o_buf, keys_buf, writer, readers, ndebug, aborted, hist>>

\* done: recipient->done_deletion_keys().
DumpDone(r) ==
    /\ ~aborted
    /\ pc[r] = "d_done"
    /\ loc' = [loc EXCEPT ![r].out = Complete(@)]
    /\ pc' = [pc EXCEPT ![r] = "d_ret"]
    /\ UNCHANGED <<root, t_o_buf, keys_buf, writer, readers, ndebug, aborted, hist>>

\* The return: queue_root's destructor releases the lock.
DumpRelease(r) ==
    /\ ~aborted
    /\ pc[r] = "d_ret"
    /\ writer' = Unlocked(r)[1]
    /\ readers' = Unlocked(r)[2]
    /\ pc' = [pc EXCEPT ![r] = "idle"]
    /\ loc' = [loc EXCEPT ![r] = NoLocals]
    /\ UNCHANGED <<root, t_o_buf, keys_buf, ndebug, aborted, hist>>

(* --------------------------- specification ----------------------------- *)
Next ==
    \/ \E w \in Writers, timestamp \in EnqTimestamps, key \in Keys :
          EnqueueAcquire(w, timestamp, key)
    \/ \E w \in Writers : EnqueueIndex(w)
    \/ \E w \in Writers : EnqueueKeys(w)
    \/ \E w \in Writers : EnqueueRelease(w)
    \/ \E r \in Readers, begin_timestamp \in QueryTimestamps,
          end_timestamp \in QueryTimestamps :
          DumpAcquire(r, begin_timestamp, end_timestamp)
    \/ \E r \in Readers : DumpSizes(r)
    \/ \E r \in Readers : DumpScan(r)
    \/ \E r \in Readers : DumpEndOffset(r)
    \/ \E r \in Readers : DumpReadKeys(r)
    \/ \E r \in Readers : DumpDone(r)
    \/ \E r \in Readers : DumpRelease(r)

Spec == Init /\ [][Next]_vars

(* ------------------------- what the claims use ------------------------- *)
\* The effective timestamp of the i-th Enqueue of history h: its own, or the
\* effective timestamp of the Enqueue before it when that one is larger.
RECURSIVE EffectiveTs(_, _)
EffectiveTs(h, i) ==
    IF i = 1 THEN h[1][1]
    ELSE LET before == EffectiveTs(h, i - 1)
         IN  IF before > h[i][1] THEN before ELSE h[i][1]

\* The keys of history h whose effective timestamp t has b <= t < e, in
\* enqueue order (which is timestamp order: EffectiveTs never decreases).
RECURSIVE KeysInRange(_, _, _, _)
KeysInRange(h, n, b, e) ==
    IF n = 0 THEN <<>>
    ELSE KeysInRange(h, n - 1, b, e)
         \o (IF b <= EffectiveTs(h, n) /\ EffectiveTs(h, n) < e
             THEN <<h[n][2]>> ELSE <<>>)

ExpectedKeys(h, b, e) == KeysInRange(h, Len(h), b, e)

\* The keys of the deletion_key calls of a recipient's record, in order.
RECURSIVE DeliveredKeys(_)
DeliveredKeys(out) ==
    IF out = <<>> THEN <<>>
    ELSE (IF Head(out)[1] = "deletion_key" THEN <<Head(out)[2]>> ELSE <<>>)
         \o DeliveredKeys(Tail(out))

\* The number of done_deletion_keys calls of a recipient's record.
Completions(out) == Cardinality({j \in 1..Len(out) : out[j][1] = "done_deletion_keys"})

InDump(r) == pc[r] \in {"d_sizes", "d_scan", "d_end", "d_read", "d_done", "d_ret"}
\* The call of r is over: it is about to return, or the process aborted in it.
DumpEnded(r) == pc[r] = "d_ret" \/ (aborted /\ InDump(r))
AllWritersIdle == \A w \in Writers : pc[w] = "idle"
EffectiveSet(h) == {EffectiveTs(h, i) : i \in 1..Len(h)}
OutOfOrder(h) == \E i \in 2..Len(h) : h[i][1] < EffectiveTs(h, i - 1)

(* ------------------------------- claims -------------------------------- *)
\* C1: a RangeQuery(begin, end) that is over has delivered exactly the keys
\* whose effective (clamped) timestamp t has begin <= t < end, in timestamp
\* order and, for equal effective timestamps, in enqueue order.
C1_RangeCorrectness ==
    \A r \in Readers :
        DumpEnded(r) =>
            DeliveredKeys(loc[r].out)
                = ExpectedKeys(hist, loc[r].begin_timestamp, loc[r].end_timestamp)

\* A query that delivered two keys of different effective timestamps, one of
\* them enqueued out of order, and left a third key out.
C1_Witness ==
    \E r \in Readers :
        /\ pc[r] = "d_ret"
        /\ Len(hist) = 3
        /\ OutOfOrder(hist)
        /\ Len(DeliveredKeys(loc[r].out)) = 2
        /\ Cardinality(EffectiveSet(hist)) = 2
        /\ loc[r].end_found

\* C2: every RangeQuery call that is over has invoked done_deletion_keys
\* exactly once, and as the last call on its recipient.
C2_CompleteExactlyOnce ==
    \A r \in Readers :
        /\ Completions(loc[r].out) <= 1
        /\ \A j \in 1..Len(loc[r].out) :
              loc[r].out[j][1] = "done_deletion_keys" => j = Len(loc[r].out)
        /\ DumpEnded(r) => Completions(loc[r].out) = 1

\* C3: the keys a RangeQuery delivers are those of a RangeQuery on the queue
\* as it is after a whole number n of the Enqueues, n no smaller than the
\* number of Enqueues that had returned when the query took the lock; and
\* while a query holds the lock no Enqueue is between its two steps.
C3_Linearizable ==
    \A r \in Readers :
        /\ InDump(r) => AllWritersIdle
        /\ pc[r] = "d_ret" =>
              \E n \in loc[r].seen..Len(hist) :
                  DeliveredKeys(loc[r].out)
                      = ExpectedKeys(SubSeq(hist, 1, n), loc[r].begin_timestamp,
                                     loc[r].end_timestamp)

\* A query that took the lock after two Enqueues had returned and delivered
\* both keys, up to the end of the key log.
C3_Witness ==
    \E r \in Readers :
        /\ pc[r] = "d_ret"
        /\ loc[r].seen = 2
        /\ ~loc[r].end_found
        /\ Len(DeliveredKeys(loc[r].out)) = 2
        /\ Len(hist) = 2

\* The key log as a walk from its start decodes it.
WholeLog == WalkKeys(keys_buf, root.keys_ref.size, 0, 0)
\* The keys of the first n Enqueues of history h.
HistKeys(h, n) == [i \in 1..n |-> h[i][2]]
\* The writer that is inside add_key_to_delete_queue, if any.
Enqueuing(w) == pc[w] \in {"e_index", "e_keys", "e_ret"}

\* C4: the entries of the offset index are strictly increasing in timestamp
\* and in offset, whatever the order of the timestamps enqueued.
C4_Monotonic ==
    \A i, j \in 1..Len(t_o_buf) :
        i < j => /\ t_o_buf[i].timestamp < t_o_buf[j].timestamp
                 /\ t_o_buf[i].offset < t_o_buf[j].offset

\* Three Enqueues have returned, the last with a timestamp below the one
\* before it, and the index has two entries.
C4_Witness ==
    /\ AllWritersIdle
    /\ Len(hist) = 3
    /\ OutOfOrder(hist)
    /\ Len(t_o_buf) = 2
    /\ hist[3][1] < hist[2][1]

\* C5: the offset index has one entry per distinct effective timestamp and
\* the key log one entry per Enqueue: Enqueues of one timestamp, given or
\* clamped, share one index entry and each adds a key log entry.
C5_Coalescing ==
    /\ AllWritersIdle =>
          /\ Len(t_o_buf) = Cardinality(EffectiveSet(hist))
          /\ Len(WholeLog.keys) = Len(hist)
    /\ \A w \in Writers :
          /\ pc[w] = "e_index" =>
                /\ Len(t_o_buf) = Cardinality(EffectiveSet(SubSeq(hist, 1, Len(hist) - 1)))
                /\ Len(WholeLog.keys) = Len(hist) - 1
          /\ pc[w] = "e_keys" =>
                /\ Len(t_o_buf) = Cardinality(EffectiveSet(hist))
                /\ Len(WholeLog.keys) = Len(hist) - 1
          /\ pc[w] = "e_ret" =>
                /\ Len(t_o_buf) = Cardinality(EffectiveSet(hist))
                /\ Len(WholeLog.keys) = Len(hist)

\* Three Enqueues of the same timestamp have returned: one index entry,
\* three keys.
C5_Witness ==
    /\ AllWritersIdle
    /\ Len(hist) = 3
    /\ \A i \in 1..3 : hist[i][1] = hist[1][1]
    /\ Len(t_o_buf) = 1
    /\ Len(WholeLog.keys) = 3

\* C6: an Enqueue whose timestamp is smaller than the last index timestamp
\* goes on with the last index timestamp as its own, adds no index entry and
\* appends its key; RangeQuery(T, T + 1) then delivers the keys of effective
\* timestamp T in enqueue order, the clamped ones among them.
C6_OutOfOrderClamped ==
    /\ \A w \in Writers :
          (Enqueuing(w) /\ pc[w] # "e_index"
              /\ Len(hist) > 1 /\ hist[Len(hist)][1] < EffectiveTs(hist, Len(hist) - 1)) =>
                /\ ~aborted
                /\ loc[w].warned
                /\ loc[w].timestamp = EffectiveTs(hist, Len(hist) - 1)
                /\ t_o_buf[Len(t_o_buf)].timestamp = loc[w].timestamp
                /\ Len(t_o_buf) = Cardinality(EffectiveSet(SubSeq(hist, 1, Len(hist) - 1)))
                /\ pc[w] = "e_ret" =>
                      /\ Len(WholeLog.keys) = Len(hist)
                      /\ WholeLog.keys[Len(hist)] = loc[w].key
    /\ \A r \in Readers :
          (pc[r] = "d_ret" /\ loc[r].end_timestamp = loc[r].begin_timestamp + 1) =>
              \A i \in 1..Len(hist) :
                  EffectiveTs(hist, i) = loc[r].begin_timestamp =>
                      \E j \in 1..Len(DeliveredKeys(loc[r].out)) :
                          /\ DeliveredKeys(loc[r].out)[j] = hist[i][2]
                          /\ j = Cardinality({m \in 1..i :
                                    EffectiveTs(hist, m) = loc[r].begin_timestamp})

\* RangeQuery(T, T + 1) has delivered two keys, the second of them enqueued
\* with a timestamp below T.
C6_Witness ==
    \E r \in Readers :
        /\ pc[r] = "d_ret"
        /\ loc[r].end_timestamp = loc[r].begin_timestamp + 1
        /\ Len(hist) = 2
        /\ hist[1][1] = loc[r].begin_timestamp
        /\ hist[2][1] < hist[1][1]
        /\ DeliveredKeys(loc[r].out) = <<hist[1][2], hist[2][2]>>
        /\ hist[1][2] # hist[2][2]

\* C7: a RangeQuery on a queue that no Enqueue has written, both bufs
\* unallocated, delivers no key and calls done_deletion_keys once, for any
\* begin and end timestamps, each time it is made.
C7_NeverWritten ==
    hist = <<>> =>
        /\ root.t_o_ref.size = 0 /\ root.keys_ref.size = 0
        /\ t_o_buf = <<>> /\ keys_buf = <<>>
        /\ \A r \in Readers :
              /\ DeliveredKeys(loc[r].out) = <<>>
              /\ DumpEnded(r) => loc[r].out = <<<<"done_deletion_keys">>>>

\* A query of a non-empty range on the never-written queue is over.
C7_Witness ==
    \E r \in Readers :
        /\ hist = <<>>
        /\ pc[r] = "d_ret"
        /\ loc[r].begin_timestamp < loc[r].end_timestamp

\* C8: the key log decodes, entry by entry, to the keys enqueued, the empty
\* key among them; the walk of a RangeQuery hands over keys of the log
\* unchanged and advances by 1 + L over a key of length L, from the start of
\* the slice to its end.
C8_RoundTrip ==
    /\ (\A w \in Writers : pc[w] \in {"idle", "e_ret"}) =>
          /\ WholeLog.fits
          /\ WholeLog.keys = HistKeys(hist, Len(hist))
    /\ \A r \in Readers :
          (pc[r] \in {"d_done", "d_ret"} /\ loc[r].walked # <<>>) =>
              LET ks == DeliveredKeys(loc[r].out)
                  at == loc[r].walked
              IN  /\ Len(at) = Len(ks)
                  /\ at[1] = 0
                  /\ \A j \in 1..(Len(ks) - 1) : at[j + 1] = at[j] + 1 + Len(ks[j])
                  /\ at[Len(ks)] + 1 + Len(ks[Len(ks)])
                        = loc[r].end_offset - loc[r].begin_offset
                  /\ \A j \in 1..Len(ks) :
                        LbReadAt(keys_buf, loc[r].begin_offset + at[j], 1 + Len(ks[j]))
                            = <<Len(ks[j])>> \o ks[j]
                  /\ \E f \in 1..Len(hist) :
                        ks = SubSeq(HistKeys(hist, Len(hist)), f, f + Len(ks) - 1)

\* A walk has decoded the empty key and, after it, a key of the longest
\* length whose content is a byte that is also a size.
C8_Witness ==
    \E r \in Readers :
        /\ pc[r] = "d_ret"
        /\ LET ks == DeliveredKeys(loc[r].out)
           IN  /\ Len(ks) = 3
               /\ ks[1] = <<>>
               /\ Len(ks[2]) = MaxKeyLen
               /\ ks[2][1] = 0
               /\ Len(ks[3]) = MaxKeyLen

\* C9: the scan never finds an entry of timestamp >= end_timestamp before it
\* has found one of timestamp >= begin_timestamp: rassert(begin_found) holds
\* in every RangeQuery, for any begin and end timestamps.
C9_BeginFoundAsserted ==
    \A r \in Readers : loc[r].failed # "begin_found"

\* C10: after the range lookup of a RangeQuery, when an entry of timestamp
\* >= begin exists, begin_offset <= end_offset; end_offset is the size of
\* the key log when no entry has timestamp >= end; and when the two offsets
\* are equal no key is delivered.
C10_OffsetsOrdered ==
    \A r \in Readers :
        (/\ pc[r] \in {"d_read", "d_done", "d_ret"}
         /\ \E i \in 1..Len(t_o_buf) : t_o_buf[i].timestamp >= loc[r].begin_timestamp) =>
            /\ loc[r].begin_offset <= loc[r].end_offset
            /\ loc[r].failed # "offsets"
            /\ (~\E i \in 1..Len(t_o_buf) : t_o_buf[i].timestamp >= loc[r].end_timestamp) =>
                  /\ loc[r].begin_found
                  /\ loc[r].end_offset = root.keys_ref.size
            /\ loc[r].begin_offset = loc[r].end_offset =>
                  DeliveredKeys(loc[r].out) = <<>>

\* A lookup found its begin entry past the start of the key log and no end
\* entry, and the query delivered up to the end of the log.
C10_Witness ==
    \E r \in Readers :
        /\ pc[r] = "d_ret"
        /\ loc[r].begin_found
        /\ ~loc[r].end_found
        /\ loc[r].begin_offset > 0
        /\ loc[r].end_offset = root.keys_ref.size
        /\ DeliveredKeys(loc[r].out) # <<>>

\* The position in the key log at which the key of the i-th Enqueue of
\* history h begins.
RECURSIVE KeyStart(_, _)
KeyStart(h, i) ==
    IF i = 1 THEN 0 ELSE KeyStart(h, i - 1) + 1 + Len(h[i - 1][2])
\* The first Enqueue of history h whose effective timestamp is t.
FirstOf(h, t) ==
    CHOOSE i \in 1..Len(h) :
        /\ EffectiveTs(h, i) = t
        /\ \A m \in 1..(i - 1) : EffectiveTs(h, m) # t
\* Every Enqueue has appended its key: none is before its return point.
AllKeysAppended == \A w \in Writers : pc[w] \in {"idle", "e_ret"}

\* C11: once the Enqueues have appended their keys, every offset of the
\* offset index, less primal_offset, is the position at which a key entry of
\* the key log begins and is below the size of the key log; and no walk of
\* a RangeQuery meets a size byte L with 1 + L beyond the end of its slice.
C11_IndexLogInSync ==
    /\ AllKeysAppended =>
          \A i \in 1..Len(t_o_buf) :
              /\ t_o_buf[i].offset - root.primal_offset < root.keys_ref.size
              /\ \E j \in 1..Len(WholeLog.at) :
                    WholeLog.at[j] = t_o_buf[i].offset - root.primal_offset
    /\ \A r \in Readers :
          /\ loc[r].failed # "key_size"
          /\ pc[r] = "d_read" =>
                /\ \E j \in 1..Len(WholeLog.at) : WholeLog.at[j] = loc[r].begin_offset
                /\ \/ loc[r].end_offset = root.keys_ref.size
                   \/ \E j \in 1..Len(WholeLog.at) : WholeLog.at[j] = loc[r].end_offset

\* A walk from the second index entry to the third, past the start of the
\* log and short of its end, has handed its key over.
C11_Witness ==
    \E r \in Readers :
        /\ pc[r] = "d_done"
        /\ Len(t_o_buf) = 3
        /\ loc[r].begin_offset = t_o_buf[2].offset
        /\ loc[r].end_offset = t_o_buf[3].offset
        /\ Len(loc[r].walked) = 1
        /\ loc[r].begin_offset > 1

\* C12: every entry of the offset index has the offset primal_offset plus
\* the size the key log had before the first Enqueue of the entry's timestamp
\* appended its key; the entry an Enqueue has just added has the offset
\* primal_offset plus the present size of the key log; the first entry has
\* offset 0.
C12_OffsetBeforeAppend ==
    /\ Len(t_o_buf) > 0 => t_o_buf[1].offset = 0
    /\ \A i \in 1..Len(t_o_buf) :
          /\ t_o_buf[i].timestamp \in EffectiveSet(hist)
          /\ t_o_buf[i].offset
                = root.primal_offset + KeyStart(hist, FirstOf(hist, t_o_buf[i].timestamp))
    /\ \A w \in Writers :
          (/\ pc[w] = "e_keys"
           /\ \A m \in 1..(Len(hist) - 1) : EffectiveTs(hist, m) # loc[w].timestamp) =>
              /\ t_o_buf[Len(t_o_buf)].timestamp = loc[w].timestamp
              /\ t_o_buf[Len(t_o_buf)].offset = loc[w].primal_offset + root.keys_ref.size

\* An Enqueue of a later timestamp has added the second index entry, at the
\* end of a key log of more than one byte, and has not yet appended its key.
C12_Witness ==
    \E w \in Writers :
        /\ pc[w] = "e_keys"
        /\ Len(t_o_buf) = 2
        /\ t_o_buf[2].timestamp = loc[w].timestamp
        /\ t_o_buf[2].offset = root.keys_ref.size
        /\ root.keys_ref.size > 1

IsPrefix(a, b) == Len(a) <= Len(b) /\ SubSeq(b, 1, Len(a)) = a

\* C13: the key step of every Enqueue appends the 1 + key.size bytes of its
\* key at the tail of the key log, whatever the key and the timestamp, and
\* changes nothing else of the two bufs; no step changes a byte that is in
\* the key log or an entry that is in the offset index, or makes either buf
\* smaller.
C13_AppendOnly ==
    [][/\ IsPrefix(keys_buf, keys_buf')
       /\ IsPrefix(t_o_buf, t_o_buf')
       /\ root.keys_ref.size <= root'.keys_ref.size
       /\ root.t_o_ref.size <= root'.t_o_ref.size
       /\ \A w \in Writers :
             /\ (pc[w] = "e_index" /\ pc'[w] # "e_index") =>
                   /\ pc'[w] = "e_keys"
                   /\ keys_buf' = keys_buf
             /\ (pc[w] = "e_keys" /\ pc'[w] # "e_keys") =>
                   /\ pc'[w] = "e_ret"
                   /\ keys_buf' = keys_buf \o <<Len(loc[w].key)>> \o loc[w].key
                   /\ root'.keys_ref.size = root.keys_ref.size + 1 + Len(loc[w].key)
                   /\ t_o_buf' = t_o_buf
                   /\ root'.t_o_ref = root.t_o_ref]_vars

\* An Enqueue has appended a key of the longest length that the log already
\* held, with a timestamp below that of the first.
C13_Witness ==
    \E w \in Writers :
        /\ pc[w] = "e_ret"
        /\ Len(hist) = 2
        /\ hist[1][2] = hist[2][2]
        /\ hist[2][1] < hist[1][1]
        /\ Len(hist[1][2]) = MaxKeyLen
        /\ keys_buf = KeyBytesOf(hist[1][2]) \o KeyBytesOf(hist[2][2])

\* C14: no step of a RangeQuery changes the root record (magic,
\* primal_offset and the two references), the offset index or the key log.
C14_ReadOnly ==
    [][(\E r \in Readers : pc'[r] # pc[r] \/ loc'[r] # loc[r]) =>
           /\ root' = root
           /\ t_o_buf' = t_o_buf
           /\ keys_buf' = keys_buf]_vars

\* A query of the whole range of timestamps has delivered the three keys of
\* the queue and is about to return, root record as initialized.
C14_Witness ==
    \E r \in Readers :
        /\ pc[r] = "d_ret"
        /\ loc[r].begin_timestamp = 0
        /\ loc[r].end_timestamp = MaxTs + 1
        /\ Len(DeliveredKeys(loc[r].out)) = 3
        /\ root.magic = expected_magic
        /\ root.primal_offset = 0

\* The steps of process p between taking the root block's lock and returning.
InCallStep(p) ==
    \/ /\ p \in Writers
       /\ (EnqueueIndex(p) \/ EnqueueKeys(p) \/ EnqueueRelease(p))
    \/ /\ p \in Readers
       /\ \/ DumpSizes(p)
          \/ DumpScan(p)
          \/ DumpEndOffset(p)
          \/ DumpReadKeys(p)
          \/ DumpDone(p)
          \/ DumpRelease(p)

\* C15: a writer inside add_key_to_delete_queue holds the root block's lock
\* alone, no reader and no other writer with it; a process outside a call
\* holds no lock, so every return has released it; and every process inside
\* a call has a next step to take, so that the call goes on to its return
\* and its release of the lock.
C15_LockReleased ==
    /\ writer # "none" => readers = {}
    /\ \A w \in Writers : Enqueuing(w) <=> writer = w
    /\ \A r \in Readers : InDump(r) <=> r \in readers
    /\ \A p \in Procs : pc[p] # "idle" => ENABLED InCallStep(p)

\* C16: the size of the timestamps-and-offsets buf is always a multiple of
\* sizeof(t_and_o): it is 12 bytes for each entry of the buf, 0 at first and
\* at most one entry for each Enqueue, so the rassert on the size at the
\* start of add_key_to_delete_queue and of dump_keys_from_delete_queue never
\* fails.
C16_SizeMultiple ==
    /\ root.t_o_ref.size % TAO_SIZE = 0
    /\ root.t_o_ref.size = TAO_SIZE * Len(t_o_buf)
    /\ root.t_o_ref.size <= TAO_SIZE * Len(hist)
    /\ hist = <<>> => root.t_o_ref.size = 0
    /\ \A p \in Procs : loc[p].failed # "t_o_size"

\* A RangeQuery has passed its check of the size on a buf of three entries,
\* one appended by each of three Enqueue calls.
C16_Witness ==
    \E r \in Readers :
        /\ pc[r] = "d_scan"
        /\ root.t_o_ref.size = 3 * TAO_SIZE
        /\ loc[r].failed = "none"

\* C17: whenever no add_key_to_delete_queue holds the root block, the
\* timestamps-and-offsets buf and the keys buf are both of size 0 or both of
\* a size above 0, and of size 0 only while no Enqueue has been made; so the
\* test of dump_keys_from_delete_queue for an unallocated buf is true only
\* on a queue that no Enqueue has completed on.
C17_BothOrNeither ==
    /\ AllWritersIdle =>
          /\ root.t_o_ref.size = 0 <=> root.keys_ref.size = 0
          /\ root.t_o_ref.size = 0 <=> hist = <<>>
    /\ \A r \in Readers :
          InDump(r) =>
              /\ AllWritersIdle
              /\ loc[r].seen = Len(hist)
              /\ (root.t_o_ref.size = 0 \/ root.keys_ref.size = 0) <=> loc[r].seen = 0
              /\ pc[r] \in {"d_scan", "d_end", "d_read"} => loc[r].seen > 0

\* A RangeQuery on a queue whose only Enqueue was of the empty key finds
\* both bufs allocated and goes on to its scan.
C17_Witness ==
    \E r \in Readers :
        /\ pc[r] = "d_scan"
        /\ hist \in {<<<<t, <<>>>>>> : t \in EnqTimestamps}
        /\ root.t_o_ref.size = TAO_SIZE
        /\ root.keys_ref.size = 1

\* The largest of the timestamps given to the first n Enqueues of history h.
MaxTimestamp(h, n) ==
    CHOOSE t \in {h[i][1] : i \in 1..n} : \A i \in 1..n : h[i][1] <= t
\* The timestamp the queue holds for the key of the i-th Enqueue: that of
\* the last entry of the offset index whose offset is not past the key.
GoverningTs(h, i) ==
    LET at == root.primal_offset + KeyStart(h, i)
        j == CHOOSE k \in 1..Len(t_o_buf) :
                 /\ t_o_buf[k].offset <= at
                 /\ \A m \in (k + 1)..Len(t_o_buf) : t_o_buf[m].offset > at
    IN  t_o_buf[j].timestamp

\* C18: once every Enqueue made so far is past its step on the offset index,
\* the timestamp of the last index entry is the largest timestamp given to
\* any Enqueue, and the timestamp the queue holds for each key is the
\* largest timestamp given to the Enqueues up to and including its own; the
\* timestamp a call goes on with after the index step is that largest one.
C18_LastIsMax ==
    (hist # <<>> /\ \A w \in Writers : pc[w] # "e_index") =>
        /\ Len(t_o_buf) > 0
        /\ t_o_buf[Len(t_o_buf)].timestamp = MaxTimestamp(hist, Len(hist))
        /\ \A i \in 1..Len(hist) : GoverningTs(hist, i) = MaxTimestamp(hist, i)
        /\ \A w \in Writers :
              pc[w] \in {"e_keys", "e_ret"} =>
                  loc[w].timestamp = MaxTimestamp(hist, Len(hist))

\* Three Enqueues have returned, the second with the largest timestamp and
\* the third with one between the first two; the last index entry has the
\* timestamp of the second.
C18_Witness ==
    /\ AllWritersIdle
    /\ Len(hist) = 3
    /\ hist[1][1] < hist[3][1]
    /\ hist[3][1] < hist[2][1]
    /\ t_o_buf[Len(t_o_buf)].timestamp = hist[2][1]

\* C19: on a queue that no Enqueue is working on, for timestamps
\* a <= b <= c, the keys of a RangeQuery from a to b followed by the keys of
\* a RangeQuery from b to c are the keys of a RangeQuery from a to c; and
\* what a RangeQuery with begin <= end has handed to its recipient when it
\* returns is that sequence of keys.
C19_RangesCompose ==
    /\ AllWritersIdle =>
          \A a, b, c \in QueryTimestamps :
              (a <= b /\ b <= c) =>
                  dump_keys_from_delete_queue(a, b) \o dump_keys_from_delete_queue(b, c)
                      = dump_keys_from_delete_queue(a, c)
    /\ \A r \in Readers :
          (pc[r] = "d_ret" /\ loc[r].begin_timestamp <= loc[r].end_timestamp) =>
              DeliveredKeys(loc[r].out)
                  = dump_keys_from_delete_queue(loc[r].begin_timestamp, loc[r].end_timestamp)

\* A RangeQuery from a to c has handed over its keys, and a timestamp b
\* between them, which an index entry carries, splits them into two
\* non-empty parts.
C19_Witness ==
    \E r \in Readers :
        /\ pc[r] = "d_ret"
        /\ \E b \in QueryTimestamps :
              /\ loc[r].begin_timestamp < b
              /\ b < loc[r].end_timestamp
              /\ \E i \in 1..Len(t_o_buf) : t_o_buf[i].timestamp = b
              /\ dump_keys_from_delete_queue(loc[r].begin_timestamp, b) # <<>>
              /\ dump_keys_from_delete_queue(b, loc[r].end_timestamp) # <<>>
              /\ Len(DeliveredKeys(loc[r].out))
                    = Len(dump_keys_from_delete_queue(loc[r].begin_timestamp, b))
                      + Len(dump_keys_from_delete_queue(b, loc[r].end_timestamp))

====
